---- MODULE Spec2Model ----
(***************************************************************************)
(* A model of setsolver.py: the feature classifier, the group matcher,     *)
(* card equality and compatibility, the combination generator and the      *)
(* CardDeck orchestrator (constructor, load_file, add_card, solve).        *)
(*                                                                         *)
(* Python values that the code lets range over several types (None or a    *)
(* list, False or a string, False or a dict) are records tagged with their *)
(* type, so that truthiness and len() behave as they do in Python.         *)
(* A call's outcome is Return(value) or Raise(exception name).             *)
(***************************************************************************)
EXTENDS Integers, Sequences, FiniteSets, TLC

\* ------------------------------------------------------------------ bounds
MaxCards == 3   \* cards in a deck, cards in a group given to is_set
MaxLen == 5     \* longest position range given to the generator alone

\* ------------------------------------------------- input universes (tokens)
NameOrder == <<"Color", "Shape">>
Names == {"Color", "Shape"}
ValuesOf == [Color |-> {"red", "green", "purple"}, Shape |-> {"square", "circle"}]

\* ------------------------------------------------------------ Python values
None == [type |-> "NoneType"]
PyBool(b) == [type |-> "bool", v |-> b]
PyStr(s) == [type |-> "str", v |-> s]
PyList(s) == [type |-> "list", v |-> s]
PyDict(f) == [type |-> "dict", v |-> f]
KeyError == [type |-> "KeyError"]

Return(x) == [kind |-> "return", value |-> x]
Raise(e) == [kind |-> "raise", value |-> e]

\* Python truth value testing, as used by `if not x` / `if x`
Truthy(x) ==
  CASE x.type = "NoneType" -> FALSE
    [] x.type = "bool" -> x.v
    [] x.type = "str" -> x.v # ""
    [] x.type = "list" -> Len(x.v) > 0
    [] x.type = "dict" -> DOMAIN x.v # {}
    [] OTHER -> TRUE

ToSet(s) == {s[i] : i \in 1..Len(s)}

SeqsUpTo(S, n) == UNION {[1..m -> S] : m \in 0..n}

SAME == PyStr("Same")
DIFFERENT == PyStr("Different")

\* ------------------------------------------------------------------- Card
Card(features) == [type |-> "Card", features |-> features]

\* dict.keys(): the names in insertion order (the column order of the file)
get_feature_names(self) ==
  SelectSeq(NameOrder, LAMBDA n : n \in DOMAIN self.features)

compatible(firstCard, secondCardOrFeatures) ==
  LET second == IF secondCardOrFeatures.type = "Card"
                THEN get_feature_names(secondCardOrFeatures)
                ELSE secondCardOrFeatures.v
      a == ToSet(get_feature_names(firstCard))
      b == ToSet(second)
  IN  Cardinality((a \ b) \cup (b \ a)) = 0

Card_eq_nocompat(firstCard, SecondCard) ==
  \A feat \in DOMAIN firstCard.features :
     feat \in DOMAIN SecondCard.features
       => firstCard.features[feat] = SecondCard.features[feat]

Card_eq(firstCard, SecondCard) ==
  IF ~compatible(firstCard, SecondCard)
  THEN FALSE
  ELSE \A feat \in DOMAIN firstCard.features :
          firstCard.features[feat] = SecondCard.features[feat]

\* ------------------------------------------------------- feature classifier
is_feature_a_set_atleast2(feat_values) ==
  LET collapse == ToSet(feat_values)
  IN  IF Cardinality(collapse) = 1 THEN SAME
      ELSE IF Cardinality(collapse) >= 2 THEN DIFFERENT
      ELSE PyBool(FALSE)

is_feature_a_set(feat_values) ==
  LET collapse == ToSet(feat_values)
  IN  IF Cardinality(collapse) = 1 THEN SAME
      ELSE IF Cardinality(collapse) = Len(feat_values) THEN DIFFERENT
      ELSE PyBool(FALSE)

\* -------------------------------------------------------------- group matcher
RECURSIVE is_set_features(_, _, _)
is_set_features(cards, feats, set_types) ==
  IF feats = <<>>
  THEN PyDict(set_types)
  ELSE LET feat == Head(feats)
       IN  IF \E i \in 1..Len(cards) : feat \notin DOMAIN cards[i].features
           THEN KeyError
           ELSE LET set_type == is_feature_a_set(
                       [i \in 1..Len(cards) |-> cards[i].features[feat]])
                IN  IF ~Truthy(set_type)
                    THEN PyBool(FALSE)
                    ELSE is_set_features(cards, Tail(feats),
                           [n \in DOMAIN set_types \cup {feat} |->
                              IF n = feat THEN set_type ELSE set_types[n]])

RECURSIVE is_set_keeps_going(_, _, _)
is_set_keeps_going(cards, feats, set_types) ==
  IF feats = <<>>
  THEN PyDict(set_types)
  ELSE LET feat == Head(feats)
       IN  IF \E i \in 1..Len(cards) : feat \notin DOMAIN cards[i].features
           THEN KeyError
           ELSE is_set_keeps_going(cards, Tail(feats),
                  [n \in DOMAIN set_types \cup {feat} |->
                     IF n = feat
                     THEN is_feature_a_set(
                            [i \in 1..Len(cards) |-> cards[i].features[feat]])
                     ELSE set_types[n]])

is_set_no_reject(cards) ==
  IF Len(cards) = 0
  THEN PyBool(FALSE)
  ELSE is_set_keeps_going(cards, get_feature_names(cards[1]), <<>>)

is_set(cards) ==
  IF Len(cards) = 0
  THEN PyBool(FALSE)
  ELSE is_set_features(cards, get_feature_names(cards[1]), <<>>)

\* ------------------------------------------------------ combination generator
\* The generator is modelled by the sequence of the values it yields.
RECURSIVE combos_with_replacement(_, _)
combos_with_replacement(items, nitems) ==
  IF nitems = 0
  THEN << <<>> >>
  ELSE LET F[i \in 1..(Len(items) + 1)] ==
             IF i > Len(items) THEN <<>>
             ELSE LET sub == combos_with_replacement(
                               SubSeq(items, i, Len(items)), nitems - 1)
                  IN  [j \in 1..Len(sub) |-> <<items[i]>> \o sub[j]] \o F[i + 1]
       IN  F[1]

RECURSIVE generate_card_combos(_, _)
generate_card_combos(items, nitems) ==
  IF nitems = 0
  THEN << <<>> >>
  ELSE LET F[i \in 1..(Len(items) + 1)] ==
             IF i > Len(items) THEN <<>>
             ELSE LET sub == generate_card_combos(
                               SubSeq(items, i + 1, Len(items)), nitems - 1)
                  IN  [j \in 1..Len(sub) |-> <<items[i]>> \o sub[j]] \o F[i + 1]
       IN  F[1]

\* range(n)
range(n) == [i \in 1..n |-> i - 1]

\* ------------------------------------------------------------------ CardSet
CardSet(cards_, positions) ==
  [type |-> "CardSet", card_positions |-> positions, cards |-> cards_,
   set_types |-> None]

\* ----------------------------------------------------------------- CardDeck
\* A deck is the record of the four attributes __init__ assigns.
\* (self.comments only collects the skipped comment lines of a file; a file
\* is modelled by its non-comment, non-blank lines, each a list of fields.)
CardDeck_new ==
  [features |-> None, cards |-> None, sets |-> <<>>, feature_values |-> <<>>]

\* dict(zip(keys, fields)): a later duplicate key overwrites an earlier one
DictZip(keys, fields) ==
  LET n == IF Len(keys) < Len(fields) THEN Len(keys) ELSE Len(fields)
  IN  [k \in {keys[i] : i \in 1..n} |->
         fields[CHOOSE i \in 1..n :
                  /\ keys[i] = k
                  /\ \A j \in 1..n : keys[j] = k => j <= i]]

\* the body of the `for line in f` loop, for one non-comment line
load_line(self, fields) ==
  IF ~Truthy(self.features)
  THEN [self EXCEPT
          !.features = PyList(fields),
          !.feature_values =
             [n \in DOMAIN self.feature_values \cup ToSet(fields) |->
                IF n \in ToSet(fields) THEN {} ELSE self.feature_values[n]]]
  ELSE IF Len(fields) # Len(self.features.v)
  THEN self
  ELSE LET card_features == DictZip(self.features.v, fields)
       IN  [self EXCEPT
              !.cards = PyList(Append(self.cards.v, Card(card_features))),
              !.feature_values =
                 [n \in DOMAIN self.feature_values |->
                    IF n \in DOMAIN card_features
                    THEN self.feature_values[n] \cup {card_features[n]}
                    ELSE self.feature_values[n]]]

RECURSIVE load_lines(_, _)
load_lines(self, lines) ==
  IF lines = <<>> THEN self
  ELSE load_lines(load_line(self, Head(lines)), Tail(lines))

load_file(self, lines) ==
  load_lines([self EXCEPT !.cards = PyList(<<>>), !.features = None], lines)

CardDeck_init(file) ==
  IF Truthy(file) THEN load_file(CardDeck_new, file.v) ELSE CardDeck_new

\* add_card: the new deck and the call's outcome
add_card_append_first(self, card) ==
  IF self.features.type = "NoneType"
  THEN [self |-> self, ret |-> Raise("TypeError")]
  ELSE [self |-> [self EXCEPT !.cards = PyList(Append(self.cards.v, card))],
        ret |-> Return(PyBool(compatible(card, self.features)))]

add_card(self, card) ==
  IF self.features.type = "NoneType"
  THEN [self |-> self, ret |-> Raise("TypeError")]          \* len(None)
  ELSE LET adopt == Len(self.features.v) = 0
           s1 == IF adopt
                 THEN [self EXCEPT !.features = PyList(get_feature_names(card))]
                 ELSE self
       IN  IF ~adopt /\ ~compatible(card, self.features)
           THEN [self |-> self, ret |-> Return(PyBool(FALSE))]
           ELSE IF s1.cards.type = "NoneType"
           THEN [self |-> s1, ret |-> Raise("AttributeError")] \* None.append
           ELSE [self |-> [s1 EXCEPT !.cards = PyList(Append(s1.cards.v, card))],
                 ret |-> Return(PyBool(TRUE))]

card_position_combos(self, setsize) ==
  generate_card_combos(range(Len(self.cards.v)), setsize)

\* the `for combo in ...` loop of solve, from the i-th combination on
RECURSIVE solve_loop(_, _, _)
solve_loop(self, combos, i) ==
  IF i > Len(combos)
  THEN [self |-> self, ret |-> Return(self.sets)]
  ELSE LET combo == combos[i]
           group == [j \in 1..Len(combo) |-> self.cards.v[combo[j] + 1]]
           set_match == is_set(group)
       IN  IF set_match.type = "KeyError"
           THEN [self |-> self, ret |-> Raise("KeyError")]
           ELSE IF Truthy(set_match)
           THEN solve_loop([self EXCEPT !.sets = Append(@, CardSet(group, combo))],
                           combos, i + 1)
           ELSE solve_loop(self, combos, i + 1)

solve_no_reset(self, setsize) ==
  IF self.features.type = "NoneType" \/ self.cards.type = "NoneType"
  THEN [self |-> self, ret |-> Raise("TypeError")]
  ELSE solve_loop(self, card_position_combos(self, setsize), 1)

solve_skips_last_card(self, setsize) ==
  LET s1 == [self EXCEPT !.sets = <<>>]
  IN  IF s1.features.type = "NoneType" \/ s1.cards.type = "NoneType"
      THEN [self |-> s1, ret |-> Raise("TypeError")]
      ELSE solve_loop(s1,
             generate_card_combos(
               range(IF Len(s1.cards.v) = 0 THEN 0 ELSE Len(s1.cards.v) - 1),
               setsize), 1)

solve(self, setsize) ==
  LET s1 == [self EXCEPT !.sets = <<>>]
  IN  IF s1.features.type = "NoneType"          \* len(self.features)
      THEN [self |-> s1, ret |-> Raise("TypeError")]
      ELSE IF s1.cards.type = "NoneType"        \* len(self.cards)
      THEN [self |-> s1, ret |-> Raise("TypeError")]
      ELSE solve_loop(s1, card_position_combos(s1, setsize), 1)

\* ============================================================== the state
\* features, cards, sets, feature_values: the attributes of the one CardDeck.
\* op, arg, ret: the last call made, its argument and its outcome.
\* stale: whether the deck held match records when that call began.
VARIABLES features, cards, sets, feature_values, op, arg, ret, stale

vars == <<features, cards, sets, feature_values, op, arg, ret, stale>>

deck == <<features, cards, sets, feature_values>>

Self ==
  [features |-> features, cards |-> cards, sets |-> sets,
   feature_values |-> feature_values]

Becomes(d) ==
  /\ features' = d.features
  /\ cards' = d.cards
  /\ sets' = d.sets
  /\ feature_values' = d.feature_values

\* ------------------------------------------------------------------ inputs
Headers == {<<"Color">>, <<"Color", "Shape">>}
TypedRows(h) == {r \in [1..Len(h) -> UNION {ValuesOf[n] : n \in Names}] :
                   \A i \in 1..Len(h) : r[i] \in ValuesOf[h[i]]}
\* the well-formed rows of a header, and a row with a field too few or too many
RowLines(h) == TypedRows(h) \cup {<<"red">>, <<"red", "square">>}
Files ==
  {<<>>} \cup UNION {{<<h>> \o rows : rows \in SeqsUpTo(RowLines(h), MaxCards - 1)} :
                      h \in Headers}
LoadFileArgs == {None} \cup {PyList(f) : f \in Files}

CardsOf(S) == {Card(f) : f \in {g \in [S -> UNION {ValuesOf[n] : n \in Names}] :
                                   \A n \in S : g[n] \in ValuesOf[n]}}
AllCards == UNION {CardsOf(S) : S \in SUBSET Names}
\* a card of a narrower and one of a wider schema: add_card reads only the
\* names of a card it refuses
SchemaCards ==
  {Card([n \in S |-> IF n = "Color" THEN "red" ELSE "square"]) :
     S \in {{"Color"}, {"Color", "Shape"}}}
AddCardArgs(self) ==
  {c \in AllCards :
     \/ c \in SchemaCards
     \/ self.features.type = "list" /\ compatible(c, self.features)}
KRange == 0..(MaxCards + 1)

\* ------------------------------------------------- the deck and its methods
\* CardDeck(load_file): the deck as the constructor leaves it
Init ==
  \E file \in LoadFileArgs :
     LET d == CardDeck_init(file)
     IN  /\ features = d.features
         /\ cards = d.cards
         /\ sets = d.sets
         /\ feature_values = d.feature_values
         /\ op = "__init__"
         /\ arg = file
         /\ ret = Return(None)
         /\ stale = FALSE

AddCard ==
  \E card \in AddCardArgs(Self) :
     LET r == add_card(Self, card)
     IN  /\ r.self.cards.type = "list" => Len(r.self.cards.v) <= MaxCards
         /\ Becomes(r.self)
         /\ op' = "add_card"
         /\ arg' = card
         /\ ret' = r.ret
         /\ stale' = (sets # <<>>)

Solve ==
  \E setsize \in KRange :
     LET r == solve(Self, setsize)
     IN  /\ Becomes(r.self)
         /\ op' = "solve"
         /\ arg' = setsize
         /\ ret' = r.ret
         /\ stale' = (sets # <<>>)

Next == AddCard \/ Solve

Spec == Init /\ [][Next]_vars

\* ------------------------------------------------ the functions called alone
\* A second specification: the module-level functions, Card.__eq__,
\* Card.compatible and the generator, each applied to inputs drawn from the
\* universes above.  The deck stays as CardDeck() leaves it.
InitFn ==
  /\ features = CardDeck_new.features
  /\ cards = CardDeck_new.cards
  /\ sets = CardDeck_new.sets
  /\ feature_values = CardDeck_new.feature_values
  /\ op = "__init__"
  /\ arg = None
  /\ ret = Return(None)
  /\ stale = FALSE

AllValues == UNION {ValuesOf[n] : n \in Names}
IsSetArgs ==
  UNION {SeqsUpTo(CardsOf(S), MaxCards) : S \in SUBSET Names} \cup [1..2 -> AllCards]
NameLists == {<<>>, <<"Color">>, <<"Shape">>, <<"Color", "Shape">>, <<"Shape", "Color">>}

\* The functions are pure: every call is made on its own, from the initial state.
CallIsFeatureASet ==
  \E feat_values \in SeqsUpTo(AllValues, MaxCards + 1) :
     /\ op = "__init__"
     /\ Cardinality(ToSet(feat_values)) <= 3
     /\ op' = "is_feature_a_set"
     /\ arg' = feat_values
     /\ ret' = Return(is_feature_a_set(feat_values))
     /\ UNCHANGED <<features, cards, sets, feature_values, stale>>

CallIsSet ==
  \E group \in IsSetArgs :
     /\ op = "__init__"
     /\ op' = "is_set"
     /\ arg' = group
     /\ ret' = Return(is_set(group))
     /\ UNCHANGED <<features, cards, sets, feature_values, stale>>

CallCardEq ==
  \E a \in AllCards, b \in AllCards :
     /\ op = "__init__"
     /\ op' = "__eq__"
     /\ arg' = <<a, b>>
     /\ ret' = Return(PyBool(Card_eq(a, b)))
     /\ UNCHANGED <<features, cards, sets, feature_values, stale>>

CallCompatible ==
  \E a \in AllCards, b \in AllCards \cup {PyList(l) : l \in NameLists} :
     /\ op = "__init__"
     /\ op' = "compatible"
     /\ arg' = <<a, b>>
     /\ ret' = Return(PyBool(compatible(a, b)))
     /\ UNCHANGED <<features, cards, sets, feature_values, stale>>

CallGenerateCardCombos ==
  \E m \in 0..MaxLen, nitems \in 0..(MaxLen + 1) :
     /\ op = "__init__"
     /\ op' = "generate_card_combos"
     /\ arg' = <<range(m), nitems>>
     /\ ret' = Return(generate_card_combos(range(m), nitems))
     /\ UNCHANGED <<features, cards, sets, feature_values, stale>>

NextFn ==
  \/ CallIsFeatureASet
  \/ CallIsSet
  \/ CallCardEq
  \/ CallCompatible
  \/ CallGenerateCardCombos

SpecFn == InitFn /\ [][NextFn]_vars

\* ================================================================== claims
Column(group, n) == [i \in 1..Len(group) |-> group[i].features[n]]
AllIdentical(vals) == \A i, j \in 1..Len(vals) : vals[i] = vals[j]
AllDistinct(vals) == \A i, j \in 1..Len(vals) : i # j => vals[i] # vals[j]
IsFalse(x) == x.type = "bool" /\ x.v = FALSE
IsStr(x, s) == x.type = "str" /\ x.v = s
Ascending(p) == \A i \in 1..(Len(p) - 1) : p[i] < p[i + 1]
\* lexicographic order on position lists of the same length
LexLess(a, b) ==
  \E i \in 1..Len(a) : a[i] < b[i] /\ \A j \in 1..(i - 1) : a[j] = b[j]
SameMultiset(a, b) ==
  /\ Len(a) = Len(b)
  /\ \A x \in ToSet(a) \cup ToSet(b) :
        Cardinality({i \in 1..Len(a) : a[i] = x}) = Cardinality({i \in 1..Len(b) : b[i] = x})
RECURSIVE Binomial(_, _)
Binomial(m, n) ==
  IF n = 0 THEN 1
  ELSE IF m = 0 THEN 0
  ELSE Binomial(m - 1, n - 1) + Binomial(m - 1, n)

\* C2: is_feature_a_set on k >= 1 values returns Same when all values are
\* identical, Different when they are pairwise distinct (and not all
\* identical), False otherwise; it does not raise; reordering the values
\* does not change the result; a single value classifies as Same.
C2_Classifier ==
  (op = "is_feature_a_set" /\ Len(arg) >= 1) =>
     /\ ret.kind = "return"
     /\ AllIdentical(arg) => IsStr(ret.value, "Same")
     /\ (AllDistinct(arg) /\ ~AllIdentical(arg)) => IsStr(ret.value, "Different")
     /\ (~AllDistinct(arg) /\ ~AllIdentical(arg)) => IsFalse(ret.value)
     /\ Len(arg) = 1 => IsStr(ret.value, "Same")
     /\ \A w \in [1..Len(arg) -> ToSet(arg)] :
           SameMultiset(w, arg) => is_feature_a_set(w) = ret.value

\* three values of which exactly two are equal: neither Same nor Different
C2_Witness ==
  /\ op = "is_feature_a_set"
  /\ Len(arg) = 3
  /\ Cardinality(ToSet(arg)) = 2
  /\ IsFalse(ret.value)

\* C3: is_set on k >= 1 cards of one schema returns False exactly when some
\* feature's column classifies as False, and otherwise the mapping from every
\* feature name of the schema to its column's classification (Same or
\* Different); on zero cards it returns False.
C3_GroupMatcher ==
  op = "is_set" =>
     /\ ret.kind = "return"
     /\ Len(arg) = 0 => IsFalse(ret.value)
     /\ (Len(arg) >= 1 /\ \A i \in 1..Len(arg) :
                             DOMAIN arg[i].features = DOMAIN arg[1].features) =>
          LET schema == DOMAIN arg[1].features
              rejected == \E n \in schema : IsFalse(is_feature_a_set(Column(arg, n)))
          IN  /\ IsFalse(ret.value) <=> rejected
              /\ ~rejected =>
                   /\ ret.value.type = "dict"
                   /\ DOMAIN ret.value.v = schema
                   /\ \A n \in schema :
                         /\ ret.value.v[n] = is_feature_a_set(Column(arg, n))
                         /\ ret.value.v[n] \in {SAME, DIFFERENT}

\* three cards, every colour different, every shape the same
C3_Witness ==
  /\ op = "is_set"
  /\ Len(arg) = 3
  /\ ret.value.type = "dict"
  /\ DOMAIN ret.value.v = {"Color", "Shape"}
  /\ ret.value.v["Color"] = DIFFERENT
  /\ ret.value.v["Shape"] = SAME

\* C4: for 0 <= n <= m, generate_card_combos(range(m), n) yields exactly
\* C(m, n) selections, each a strictly ascending list of n positions of
\* 0..m-1, none repeated, in lexicographic order; for n = 0 it yields the
\* empty selection and nothing else.
C4_Combinations ==
  (op = "generate_card_combos" /\ arg[2] <= Len(arg[1])) =>
     LET m == Len(arg[1])
         n == arg[2]
         out == ret.value
     IN  /\ ret.kind = "return"
         /\ Len(out) = Binomial(m, n)
         /\ \A i \in 1..Len(out) :
               /\ Len(out[i]) = n
               /\ ToSet(out[i]) \subseteq 0..(m - 1)
               /\ Ascending(out[i])
         /\ \A i, j \in 1..Len(out) : i < j => LexLess(out[i], out[j])
         /\ n = 0 => out = << <<>> >>

\* the ten selections of 2 positions out of 5
C4_Witness ==
  /\ op = "generate_card_combos"
  /\ Len(arg[1]) = 5
  /\ arg[2] = 2
  /\ Len(ret.value) = 10
  /\ ret.value[1] = <<0, 1>>
  /\ ret.value[10] = <<3, 4>>

\* C5: a == b is true exactly when the two cards have the same set of feature
\* names and every name maps to the same value in both; a card equals itself;
\* a card never equals one whose schema is a strict superset or subset of its
\* own, even when the values of the shared names agree.
C5_CardEquality ==
  op = "__eq__" =>
     LET a == arg[1].features
         b == arg[2].features
     IN  /\ ret.kind = "return"
         /\ ret.value.type = "bool"
         /\ ret.value.v <=> (DOMAIN a = DOMAIN b /\ \A n \in DOMAIN a : a[n] = b[n])
         /\ arg[1] = arg[2] => ret.value.v
         /\ (DOMAIN a # DOMAIN b
               /\ (DOMAIN a \subseteq DOMAIN b \/ DOMAIN b \subseteq DOMAIN a))
              => ~ret.value.v

\* a card against one with a strictly wider schema and the same shared values
C5_Witness ==
  /\ op = "__eq__"
  /\ DOMAIN arg[1].features = {"Color"}
  /\ DOMAIN arg[2].features = {"Color", "Shape"}
  /\ arg[1].features["Color"] = arg[2].features["Color"]
  /\ ret.value = PyBool(FALSE)

\* ------------------------------------------------------ claims about the deck
HasSchema == features.type = "list"
Schema == ToSet(features.v)
NumCards == IF cards.type = "list" THEN Len(cards.v) ELSE 0
SharedSchema ==
  /\ HasSchema
  /\ cards.type = "list"
  /\ \A i \in 1..Len(cards.v) : DOMAIN cards.v[i].features = Schema
\* the strictly ascending lists of k positions of a deck of m cards
Groups(m, k) == {g \in [1..k -> 0..(m - 1)] : Ascending(g)}
CardsAt(g) == [i \in 1..Len(g) |-> cards.v[g[i] + 1]]
\* for every feature, the values across the group all identical or all distinct
Qualifies(g) ==
  \A n \in Schema : AllIdentical(Column(CardsAt(g), n)) \/ AllDistinct(Column(CardsAt(g), n))
Positions(records) == [i \in 1..Len(records) |-> records[i].card_positions]

\* C1: on a deck whose cards share the deck's schema, solve(k) with k >= 1
\* returns match records whose position lists are exactly the strictly
\* ascending groups of k positions in which every feature's values are all
\* identical or all pairwise distinct, each once, in lexicographic order.
C1_SolveFindsExactlyTheMatches ==
  (op = "solve" /\ arg >= 1 /\ SharedSchema) =>
     /\ ret.kind = "return"
     /\ LET P == Positions(ret.value)
        IN  /\ ToSet(P) = {g \in Groups(Len(cards.v), arg) : Qualifies(g)}
            /\ \A i, j \in 1..Len(P) : i < j => LexLess(P[i], P[j])

\* three cards of three colours and one shape, solved for groups of three
C1_Witness ==
  /\ op = "solve"
  /\ arg = 3
  /\ SharedSchema
  /\ Schema = {"Color", "Shape"}
  /\ Len(cards.v) = 3
  /\ ret.kind = "return"
  /\ Positions(ret.value) = << <<0, 1, 2>> >>
  /\ ~AllIdentical(Column(cards.v, "Color"))
  /\ AllIdentical(Column(cards.v, "Shape"))

\* C6: add_card never raises and returns a boolean; on a deck without a
\* schema it adopts the card's schema, appends the card at the next position
\* and returns True; on a deck with a schema it appends and returns True
\* exactly when the card's schema is the deck's.
C6_AddCardNeverRaises ==
  [][op' = "add_card" =>
       /\ ret'.kind = "return"
       /\ ret'.value.type = "bool"
       /\ ~HasSchema =>
            /\ ret'.value.v
            /\ features'.type = "list"
            /\ ToSet(features'.v) = DOMAIN arg'.features
            /\ cards'.type = "list"
            /\ cards'.v = (IF cards.type = "list" THEN cards.v ELSE <<>>) \o <<arg'>>
       /\ HasSchema =>
            /\ ret'.value.v <=> (DOMAIN arg'.features = Schema)
            /\ ret'.value.v => cards'.v = Append(cards.v, arg')
            /\ ret'.value.v => features' = features]_vars

\* C7: add_card with a card whose schema differs from the deck's established
\* schema returns False and changes nothing: cards, schema, per-feature value
\* sets and result collection are as before the call.
C7_RefusedCardChangesNothing ==
  [][(op' = "add_card" /\ HasSchema /\ DOMAIN arg'.features # Schema) =>
       /\ ret' = Return(PyBool(FALSE))
       /\ UNCHANGED <<features, cards, sets, feature_values>>]_vars

\* a card refused by a deck that holds cards, value sets and match records
C7_Witness ==
  /\ op = "add_card"
  /\ ret.kind = "return"
  /\ IsFalse(ret.value)
  /\ HasSchema
  /\ DOMAIN arg.features # Schema
  /\ NumCards >= 2
  /\ sets # <<>>
  /\ \E n \in DOMAIN feature_values : feature_values[n] # {}

\* C8: solve(0) on a non-empty deck, and solve(k) with k greater than the
\* number of cards on any deck, return an empty result collection without
\* raising.
C8_PathologicalSizesReturnEmpty ==
  (op = "solve" /\ ((arg = 0 /\ NumCards > 0) \/ arg > NumCards)) =>
     /\ ret.kind = "return"
     /\ ret.value = <<>>

\* C9: every match record returned by solve holds the ascending positions,
\* the cards at those positions, and the mapping from every feature name of
\* the schema to the group's classification as is_set computed it.
C9_MatchRecordHoldsClassification ==
  (op = "solve" /\ ret.kind = "return") =>
     \A i \in 1..Len(ret.value) :
        LET rec == ret.value[i]
        IN  /\ Ascending(rec.card_positions)
            /\ rec.cards = CardsAt(rec.card_positions)
            /\ rec.set_types.type = "dict"
            /\ DOMAIN rec.set_types.v = Schema
            /\ rec.set_types = is_set(rec.cards)

\* C10: after a solve call, the deck's stored result collection is what that
\* solve(k) computes on the same deck holding no earlier results; when the
\* call returns, it is the collection returned, and calling solve(k) again
\* on the unchanged deck returns the same position lists.
C10_ResultsRebuiltEveryPass ==
  op = "solve" =>
     /\ sets = solve([Self EXCEPT !.sets = <<>>], arg).self.sets
     /\ ret.kind = "return" =>
          /\ sets = ret.value
          /\ LET again == solve(Self, arg)
             IN  /\ again.ret.kind = "return"
                 /\ Positions(again.ret.value) = Positions(ret.value)

\* a pass over a deck that held match records finds none: the old ones are gone
C10_Witness ==
  /\ op = "solve"
  /\ ret.kind = "return"
  /\ stale
  /\ NumCards >= 2
  /\ arg >= 1
  /\ sets = <<>>

\* C11: in every state reached by loading cards and calling add_card, for
\* each feature name of the deck's schema the accumulated distinct-value set
\* is exactly the set of values that feature takes across the cards in the
\* deck.
C11_FeatureValuesMatchCards ==
  SharedSchema =>
     \A n \in Schema :
        /\ n \in DOMAIN feature_values
        /\ feature_values[n] = {cards.v[i].features[n] : i \in 1..Len(cards.v)}

====
